---- MODULE Spec2Model ----
(***************************************************************************)
(* Model of the multi-agent news analyzer (src/4.py): the controller       *)
(* run_news_analyzer, the summarizer, and the three LangGraph nodes        *)
(* FactAgent -> BiasAgent -> Supervisor working on one NewsState.          *)
(*                                                                         *)
(* Article texts are TLA+ strings; the string functions of the code        *)
(* (split, strip, lower, join, substring containment, len) are computed    *)
(* character by character.                                                 *)
(***************************************************************************)
EXTENDS Integers, Sequences, FiniteSets, TLC

VARIABLES
    pc,        \* where the controller is: "idle", a graph node, "END", "returned"
    article,   \* the argument of the current (or last) call, as the caller passed it
    state,     \* the NewsState most recently built by the controller
    executed,  \* the graph nodes app.invoke has run in the current call, in order
    result,    \* the tuple the last call returned (<<>> while a call is running)
    calls      \* number of calls made so far

vars == <<pc, article, state, executed, result, calls>>

----------------------------------------------------------------------------
(* Bounds of the model *)

\* an article body is a concatenation of at most MaxPieces pieces of Vocab
MaxPieces == 2
\* number of periods a padded article starts with
LeadPeriods == 4
\* number of calls the caller makes
MaxCalls == 2

----------------------------------------------------------------------------
(* Python string primitives *)

\* s[i-1:i]
Char(s, i) == SubSeq(s, i, i)

\* ASCII whitespace, the characters str.strip() removes
Whitespace == {" ", "\t", "\n", "\r", "\f"}

IsSpace(c) == c \in Whitespace

\* s.strip()
Strip(s) ==
    IF \A i \in 1..Len(s) : IsSpace(Char(s, i))
    THEN ""
    ELSE LET first == CHOOSE i \in 1..Len(s) :
                         /\ ~IsSpace(Char(s, i))
                         /\ \A j \in 1..(i - 1) : IsSpace(Char(s, j))
             last  == CHOOSE i \in 1..Len(s) :
                         /\ ~IsSpace(Char(s, i))
                         /\ \A j \in (i + 1)..Len(s) : IsSpace(Char(s, j))
         IN  SubSeq(s, first, last)

\* w in s
Contains(s, w) ==
    \E i \in 1..(Len(s) - Len(w) + 1) : SubSeq(s, i, i + Len(w) - 1) = w

\* number of places of s where w starts
Occurrences(s, w) ==
    Cardinality({i \in 1..(Len(s) - Len(w) + 1) : SubSeq(s, i, i + Len(w) - 1) = w})

\* s.find(".") + 1, 0 when s holds no period
FindPeriod(s) ==
    IF \E i \in 1..Len(s) : Char(s, i) = "."
    THEN CHOOSE i \in 1..Len(s) :
            /\ Char(s, i) = "."
            /\ \A j \in 1..(i - 1) : Char(s, j) # "."
    ELSE 0

\* s.split(".")
RECURSIVE Split(_)
Split(s) ==
    LET p == FindPeriod(s)
    IN  IF p = 0
        THEN <<s>>
        ELSE <<SubSeq(s, 1, p - 1)>> \o Split(SubSeq(s, p + 1, Len(s)))

\* sep.join(parts)
RECURSIVE Join(_, _)
Join(parts, sep) ==
    IF Len(parts) = 0 THEN ""
    ELSE IF Len(parts) = 1 THEN parts[1]
    ELSE parts[1] \o sep \o Join(Tail(parts), sep)

\* parts[:n]
Take(parts, n) == SubSeq(parts, 1, IF Len(parts) < n THEN Len(parts) ELSE n)

UpperCase == "ABCDEFGHIJKLMNOPQRSTUVWXYZ"
LowerCase == "abcdefghijklmnopqrstuvwxyz"

\* c.lower() for one character
LowerChar(c) ==
    IF \E i \in 1..Len(UpperCase) : Char(UpperCase, i) = c
    THEN Char(LowerCase, CHOOSE i \in 1..Len(UpperCase) : Char(UpperCase, i) = c)
    ELSE c

\* s.lower()
RECURSIVE Lower(_)
Lower(s) ==
    IF Len(s) = 0 THEN ""
    ELSE IF Len(s) = 1 THEN LowerChar(s)
    ELSE LET h == Len(s) \div 2
         IN  Lower(SubSeq(s, 1, h)) \o Lower(SubSeq(s, h + 1, Len(s)))

\* x or d, for strings
Or(x, d) == IF x = "" THEN d ELSE x

----------------------------------------------------------------------------
(* Constants of the program *)

\* len(text) > 1000
SummarizerThreshold == 1000
\* sentences[:5]
SummaryFragments == 5
\* elif bias_count <= 2
ModerateLimit == 2
\* scores are kept in tenths: 9 stands for the float 0.9
ScoreNeutral == 9
ScoreModerate == 6
ScoreHigh == 3
ScoreInitial == 0

biased_words == <<"shocking", "disaster", "failure", "corrupt", "outrage">>

FactLog == "Fact Extractor Agent executed"
BiasLog == "Bias Analyzer Agent executed"
SupervisorLog == "Supervisor Agent calculated neutrality score"
\* the arrow of the source line is written ->
SummarizerLog == "Article length > 1000 -> Summarizer Agent executed"
\* the cross-mark emoji of the source line is written [x]
ErrorMarker == "[x] No article provided"
NoFacts == "No factual statements found"
NoBias == "No bias indicators found"

\* str(score) of a float held in tenths: 9 -> "0.9", 0 -> "0.0"
FloatStr(tenths) == "0." \o ToString(tenths)

----------------------------------------------------------------------------
(* Agents *)

summarizer_agent(t) == Join(Take(Split(t), SummaryFragments), ".")

\* variant: only " is " marks a fact
IsFact_OnlyIs(s) == Contains(s, " is ")

\* the condition of the list comprehension: it reads the fragment as split
IsFact(s) == Contains(s, " is ") \/ Contains(s, " was ")

\* [s.strip() for s in fragments if IsFact(s)]
RECURSIVE StripKept(_)
StripKept(fragments) ==
    IF Len(fragments) = 0 THEN <<>>
    ELSE IF IsFact(Head(fragments))
         THEN <<Strip(Head(fragments))>> \o StripKept(Tail(fragments))
         ELSE StripKept(Tail(fragments))

fact_extractor(st) ==
    [st EXCEPT !.facts = StripKept(Split(st.text)),
               !.logs = Append(@, FactLog)]

\* variant: one entry for every occurrence of a term
RECURSIVE PerOccurrence(_, _)
PerOccurrence(t, words) ==
    IF Len(words) = 0 THEN <<>>
    ELSE [i \in 1..Occurrences(t, Head(words)) |-> Head(words)]
         \o PerOccurrence(t, Tail(words))

FoundBias_PerOccurrence(t) == PerOccurrence(t, biased_words)

\* [w for w in biased_words if w in text]
FoundBias(t) == SelectSeq(biased_words, LAMBDA w : Contains(t, w))

\* variant: the text is searched as written, not lowercased
bias_analyzer_CaseSensitive(st) ==
    [st EXCEPT !.bias_words = FoundBias(st.text),
               !.logs = Append(@, BiasLog)]

bias_analyzer(st) ==
    [st EXCEPT !.bias_words = FoundBias(Lower(st.text)),
               !.logs = Append(@, BiasLog)]

\* variant: bias_count < 2 in the middle branch
Verdict_StrictLimit(bias_count) ==
    IF bias_count = 0 THEN <<ScoreNeutral, "Mostly Neutral">>
    ELSE IF bias_count < ModerateLimit THEN <<ScoreModerate, "Moderately Biased">>
    ELSE <<ScoreHigh, "Highly Biased">>

\* the if / elif / else of supervisor_agent: <<score, remark>>
Verdict(bias_count) ==
    IF bias_count = 0 THEN <<ScoreNeutral, "Mostly Neutral">>
    ELSE IF bias_count <= ModerateLimit THEN <<ScoreModerate, "Moderately Biased">>
    ELSE <<ScoreHigh, "Highly Biased">>

\* variant: the supervisor starts a new log
supervisor_agent_NewLog(st) ==
    LET v == Verdict(Len(st.bias_words))
    IN  [st EXCEPT !.score = v[1], !.remark = v[2],
                   !.logs = <<SupervisorLog>>]

supervisor_agent(st) ==
    LET v == Verdict(Len(st.bias_words))
    IN  [st EXCEPT !.score = v[1], !.remark = v[2],
                   !.logs = Append(@, SupervisorLog)]

----------------------------------------------------------------------------
(* The graph *)

Nodes == {"FactAgent", "BiasAgent", "Supervisor"}

EntryPoint == "FactAgent"

\* variant: the edge FactAgent -> BiasAgent leads to Supervisor instead
NextNode_SkipBias(n) ==
    CASE n = "FactAgent" -> "Supervisor"
      [] OTHER -> "END"

\* variant: the edge BiasAgent -> Supervisor is missing
NextNode_NoSupervisorEdge(n) ==
    CASE n = "FactAgent" -> "BiasAgent"
      [] OTHER -> "END"

\* the edges added to the graph; a node without an outgoing edge ends the run
NextNode(n) ==
    CASE n = "FactAgent" -> "BiasAgent"
      [] n = "BiasAgent" -> "Supervisor"
      [] OTHER -> "END"

----------------------------------------------------------------------------
(* The controller *)

\* variant: the article is compared without strip()
IsBlank_NoStrip(t) == t = ""

IsBlank(t) == Strip(t) = ""

\* variant: >= in place of >
NeedsSummary_AtThreshold(t) == Len(t) >= SummarizerThreshold

NeedsSummary(t) == Len(t) > SummarizerThreshold

\* variant: one log list shared by all calls
FreshLogs_Shared == state.logs

\* logs = []
FreshLogs == <<>>

NewsState(t, logs) ==
    [text |-> t, facts |-> <<>>, bias_words |-> <<>>,
     score |-> ScoreInitial, remark |-> "", logs |-> logs]

\* the state handed to app.invoke for a non-blank article
InitialState(t) ==
    IF NeedsSummary(t)
    THEN NewsState(summarizer_agent(t), Append(FreshLogs, SummarizerLog))
    ELSE NewsState(t, FreshLogs)

\* the tuple built from the graph's final state
Render(st) ==
    << Or(Join(st.facts, "\n"), NoFacts),
       Or(Join(st.bias_words, ", "), NoBias),
       FloatStr(st.score) \o " (" \o st.remark \o ")",
       Join(st.logs, "\n") >>

----------------------------------------------------------------------------
(* Articles the caller passes *)

Vocab == {" is ", ". was ", ".", "\n", "disaster", "Shocking failure"}

RECURSIVE Bodies(_)
Bodies(n) ==
    IF n = 0 THEN {""}
    ELSE LET B == Bodies(n - 1) IN B \cup {b \o p : b \in B, p \in Vocab}

RECURSIVE Rep(_, _)
Rep(c, n) ==
    IF n <= 0 THEN ""
    ELSE IF n = 1 THEN c
    ELSE LET h == Rep(c, n \div 2)
         IN  IF n % 2 = 0 THEN h \o h ELSE h \o h \o c

\* body after LeadPeriods periods, then a tail "..aaa" filling up to n characters
Padded(body, n) ==
    LET head == Rep(".", LeadPeriods)
        room == n - Len(head) - Len(body)
    IN  head \o body \o Rep(".", IF room < 2 THEN room ELSE 2) \o Rep("a", room - 2)

ShortArticles == Bodies(MaxPieces)

Articles ==
    ShortArticles
    \cup {Padded(b, SummarizerThreshold) : b \in ShortArticles}
    \cup {Padded(b, SummarizerThreshold + 1) : b \in ShortArticles}
    \cup {Rep("\n", SummarizerThreshold + 1)}

----------------------------------------------------------------------------
(* State machine *)

NoState == NewsState("", <<>>)

\* lines 81-99 for each article, worked out once per article
Prepared == [t \in Articles |-> IF IsBlank(t) THEN NoState ELSE InitialState(t)]

Blank == {t \in Articles : IsBlank(t)}

Init ==
    /\ pc = "idle"
    /\ article = ""
    /\ state = NoState
    /\ executed = <<>>
    /\ result = <<>>
    /\ calls = 0

\* run_news_analyzer(t) up to the start of app.invoke
Call(t) ==
    /\ pc \in {"idle", "returned"}
    /\ calls < MaxCalls
    /\ calls' = calls + 1
    /\ article' = t
    /\ executed' = <<>>
    /\ IF t \in Blank
       THEN /\ result' = <<ErrorMarker, "", "", "">>
            /\ pc' = "returned"
            /\ UNCHANGED state
       ELSE /\ state' = Prepared[t]
            /\ pc' = EntryPoint
            /\ result' = <<>>

FactAgent ==
    /\ pc = "FactAgent"
    /\ state' = fact_extractor(state)
    /\ executed' = Append(executed, "FactAgent")
    /\ pc' = NextNode("FactAgent")
    /\ UNCHANGED <<article, result, calls>>

BiasAgent ==
    /\ pc = "BiasAgent"
    /\ state' = bias_analyzer(state)
    /\ executed' = Append(executed, "BiasAgent")
    /\ pc' = NextNode("BiasAgent")
    /\ UNCHANGED <<article, result, calls>>

Supervisor ==
    /\ pc = "Supervisor"
    /\ state' = supervisor_agent(state)
    /\ executed' = Append(executed, "Supervisor")
    /\ pc' = NextNode("Supervisor")
    /\ UNCHANGED <<article, result, calls>>

\* app.invoke returns and the controller renders the tuple
Return ==
    /\ pc = "END"
    /\ result' = Render(state)
    /\ pc' = "returned"
    /\ UNCHANGED <<article, state, executed, calls>>

Next ==
    \/ \E t \in Articles : Call(t)
    \/ FactAgent
    \/ BiasAgent
    \/ Supervisor
    \/ Return

Spec == Init /\ [][Next]_vars

\* The control part of the step out of position n.  The agents and the
\* rendering are total, so the step out of n is enabled exactly when control
\* is at n, and it always moves control.
Leaves(n) == pc = n /\ pc' = (IF n = "END" THEN "returned" ELSE NextNode(n))

\* A started call runs to its end: app.invoke and the rendering are
\* synchronous, nothing suspends a run between two nodes.
FairSpec ==
    /\ Spec
    /\ WF_pc(Leaves("FactAgent"))
    /\ WF_pc(Leaves("BiasAgent"))
    /\ WF_pc(Leaves("Supervisor"))
    /\ WF_pc(Leaves("END"))

TypeOK ==
    /\ pc \in {"idle", "returned", "END"} \cup Nodes
    /\ Len(result) \in {0, 4}
    /\ calls \in 0..MaxCalls

----------------------------------------------------------------------------
(* Vocabulary of the properties *)

StageOrder == <<"FactAgent", "BiasAgent", "Supervisor">>

StageLogs == <<FactLog, BiasLog, SupervisorLog>>

\* t is empty or holds whitespace only
AllWhitespace(t) == \A i \in 1..Len(t) : Char(t, i) \in Whitespace

\* a call with a non-blank article is running or has just returned
InRun ==
    \/ pc \in Nodes \cup {"END"}
    \/ pc = "returned" /\ ~AllWhitespace(article)

\* a call with a non-blank article has been through the whole graph
Completed ==
    \/ pc = "END"
    \/ pc = "returned" /\ ~AllWhitespace(article)

EndsWith(s, suffix) ==
    /\ Len(s) >= Len(suffix)
    /\ SubSeq(s, Len(s) - Len(suffix) + 1, Len(s)) = suffix

IsPrefix(p, q) == Len(p) <= Len(q) /\ SubSeq(q, 1, Len(p)) = p

Range(f) == {f[i] : i \in 1..Len(f)}

Periods(t) == {i \in 1..Len(t) : Char(t, i) = "."}

\* t up to, not including, its n-th period; t itself when it holds fewer
UpToPeriod(t, n) ==
    LET P == Periods(t)
    IN  IF Cardinality(P) < n THEN t
        ELSE SubSeq(t, 1, (CHOOSE p \in P : Cardinality({q \in P : q < p}) = n - 1) - 1)

----------------------------------------------------------------------------
(* C1 *)

\* C1: a call whose article is empty or whitespace only returns the error
\* marker and three empty strings at once: no graph node runs, the state is
\* left as it was and no log line is written.
C1_BlankShortCircuits ==
    [][ (pc \in {"idle", "returned"} /\ AllWhitespace(article'))
        => /\ result' = <<ErrorMarker, "", "", "">>
           /\ pc' = "returned"
           /\ executed' = <<>>
           /\ state' = state ]_vars

\* a whitespace-only article of 1001 characters returned the marker after
\* a completed call, whose state and log are still the earlier call's
C1_Witness ==
    /\ pc = "returned"
    /\ Len(article) = 1001
    /\ AllWhitespace(article)
    /\ result = <<ErrorMarker, "", "", "">>
    /\ calls = 2
    /\ state.logs = StageLogs
    /\ executed = <<>>

----------------------------------------------------------------------------
(* C2 *)

\* C2: in a call with a non-blank article the nodes run FactAgent, BiasAgent,
\* Supervisor, each once and in that order, and the returned log ends with
\* their three trace lines in that order.
C2_StagesInOrder ==
    /\ IsPrefix(executed, StageOrder)
    /\ pc \in Nodes => pc = StageOrder[Len(executed) + 1]
    /\ Completed =>
          /\ executed = StageOrder
          /\ Len(state.logs) >= 3
          /\ SubSeq(state.logs, Len(state.logs) - 2, Len(state.logs)) = StageLogs
    /\ (pc = "returned" /\ ~AllWhitespace(article)) =>
          EndsWith(result[4], FactLog \o "\n" \o BiasLog \o "\n" \o SupervisorLog)

C2_Witness ==
    /\ pc = "returned"
    /\ article = " is disaster"
    /\ executed = StageOrder
    /\ result[4] = FactLog \o "\n" \o BiasLog \o "\n" \o SupervisorLog

----------------------------------------------------------------------------
(* C3 *)

\* C3: for a non-blank article longer than 1000 characters the nodes work on
\* the article cut before its fifth period and the first log entry is the
\* summarizer's; for an article of at most 1000 characters they work on the
\* article itself and the log holds no summarizer entry.
C3_SummaryOverThreshold ==
    InRun =>
       IF Len(article) > 1000
       THEN /\ state.text = UpToPeriod(article, 5)
            /\ state.logs[1] = SummarizerLog
            /\ \A i \in 2..Len(state.logs) : state.logs[i] # SummarizerLog
       ELSE /\ state.text = article
            /\ SummarizerLog \notin Range(state.logs)

\* a 1001-character article whose bias term lies behind the fifth period
C3_Witness ==
    /\ pc = "returned"
    /\ Len(article) = 1001
    /\ Contains(article, "disaster")
    /\ state.text = "...."
    /\ state.bias_words = <<>>
    /\ state.logs = <<SummarizerLog>> \o StageLogs

----------------------------------------------------------------------------
(* C4 *)

\* C4: after a completed run the score and remark are the decision table's
\* row for the number of entries in bias_words: none gives 0.9 "Mostly
\* Neutral", one or two give 0.6 "Moderately Biased", three or more give 0.3
\* "Highly Biased"; the score is never the initial 0.0.
C4_DecisionTable ==
    Completed =>
       LET n == Len(state.bias_words)
       IN  /\ n = 0 => state.score = 9 /\ state.remark = "Mostly Neutral"
           /\ n \in {1, 2} => state.score = 6 /\ state.remark = "Moderately Biased"
           /\ n >= 3 => state.score = 3 /\ state.remark = "Highly Biased"
           /\ state.score \in {3, 6, 9}
           /\ pc = "returned" =>
                 result[3] \in {"0.9 (Mostly Neutral)", "0.6 (Moderately Biased)",
                                "0.3 (Highly Biased)"}

C4_Witness ==
    /\ pc = "returned"
    /\ Len(state.bias_words) = 3
    /\ state.score = 3
    /\ result[3] = "0.3 (Highly Biased)"

----------------------------------------------------------------------------
(* C5 *)

RECURSIVE TotalOccurrences(_, _)
TotalOccurrences(t, words) ==
    IF Len(words) = 0 THEN 0
    ELSE Occurrences(t, Head(words)) + TotalOccurrences(t, Tail(words))

\* the bias terms that occur in t at least once
DistinctTerms(t) == {w \in Range(biased_words) : Occurrences(t, w) > 0}

\* the documented score and remark for a count
Bucket(n) ==
    IF n = 0 THEN <<9, "Mostly Neutral">>
    ELSE IF n <= 2 THEN <<6, "Moderately Biased">>
    ELSE <<3, "Highly Biased">>

\* C5 as stated: the score and remark of a completed run are the bucket of
\* the number of bias-term occurrences in the text, so three or more
\* occurrences give 0.3 "Highly Biased".
C5_ByOccurrences ==
    Completed =>
       <<state.score, state.remark>> =
           Bucket(TotalOccurrences(Lower(state.text), biased_words))

\* C5 as amended: the score and remark of a completed run are the bucket of
\* the number of distinct bias terms occurring in the text (repeating a term
\* changes nothing), so the verdict changes exactly when that number goes
\* from 0 to 1 and from 2 to 3, and three or more distinct terms give 0.3
\* "Highly Biased".
C5_ByDistinctTerms ==
    Completed =>
       <<state.score, state.remark>> =
           Bucket(Cardinality(DistinctTerms(Lower(state.text))))

\* four occurrences of two distinct terms are scored 0.6
C5_Witness ==
    /\ pc = "END"
    /\ state.text = "Shocking failureShocking failure"
    /\ TotalOccurrences(Lower(state.text), biased_words) = 4
    /\ state.score = 6
    /\ state.remark = "Moderately Biased"

----------------------------------------------------------------------------
(* C6 *)

HasMarker(s) == Contains(s, " is ") \/ Contains(s, " was ")

\* state.facts is the fragments k \in keep of frags, trimmed, in their order
FactsAre(frags, keep) ==
    /\ Len(state.facts) = Cardinality(keep)
    /\ \A k \in keep :
          state.facts[1 + Cardinality({j \in keep : j < k})] = Strip(frags[k])

\* C6 as stated: facts is the trimmed fragments whose trimmed form holds
\* " is " or " was ", in text order.
C6_TrimmedFragmentDecides ==
    (pc \in {"BiasAgent", "Supervisor", "END"}) =>
       LET frags == Split(state.text)
       IN  FactsAre(frags, {k \in 1..Len(frags) : HasMarker(Strip(frags[k]))})

\* C6 as amended: facts is the trimmed form of exactly those fragments that,
\* as split and before trimming, hold " is " or " was ", in text order.
C6_SplitFragmentDecides ==
    (pc \in {"BiasAgent", "Supervisor", "END"}) =>
       LET frags == Split(state.text)
       IN  FactsAre(frags, {k \in 1..Len(frags) : HasMarker(frags[k])})

\* two facts kept in text order, the second one a fragment whose marker
\* touches the fragment's end, so that its trimmed form holds no marker
C6_Witness ==
    /\ pc = "BiasAgent"
    /\ state.text = " is . was "
    /\ state.facts = <<"is", "was">>

----------------------------------------------------------------------------
(* C7 *)

\* place of w in the fixed list
ListIndex(w) == CHOOSE i \in 1..Len(biased_words) : biased_words[i] = w

\* C7: once BiasAgent has run, bias_words holds exactly the terms of the
\* fixed list that occur in the lowercased text, each once and in the list's
\* order, whatever their order, number and letter case in the text.
C7_BiasWordsAreListSubset ==
    (pc = "Supervisor") =>
       LET bw == state.bias_words
           low == Lower(state.text)
       IN  /\ Len(bw) \in 0..5
           /\ \A i \in 1..Len(bw) : bw[i] \in Range(biased_words)
           /\ \A i, j \in 1..Len(bw) : i < j => ListIndex(bw[i]) < ListIndex(bw[j])
           /\ \A w \in Range(biased_words) : w \in Range(bw) <=> Occurrences(low, w) > 0

\* "disaster" comes first in the text and second in the result, and the
\* capitalised "Shocking" is found
C7_Witness ==
    /\ pc = "Supervisor"
    /\ state.text = "disasterShocking failure"
    /\ state.bias_words = <<"shocking", "disaster", "failure">>

----------------------------------------------------------------------------
(* C8 *)

Appended(old, new) == Len(new) = Len(old) + 1 /\ SubSeq(new, 1, Len(old)) = old

Same(f) == state'[f] = state[f]

\* C8: FactAgent changes facts and nothing else, BiasAgent bias_words,
\* Supervisor score and remark; text never changes after the state is built;
\* every node step adds exactly one entry at the end of logs and keeps the
\* earlier entries; rendering the result changes nothing.
C8_OneWriterPerField ==
    [][ /\ pc = "FactAgent" =>
              /\ Same("text") /\ Same("bias_words") /\ Same("score") /\ Same("remark")
              /\ Appended(state.logs, state'.logs)
        /\ pc = "BiasAgent" =>
              /\ Same("text") /\ Same("facts") /\ Same("score") /\ Same("remark")
              /\ Appended(state.logs, state'.logs)
        /\ pc = "Supervisor" =>
              /\ Same("text") /\ Same("facts") /\ Same("bias_words")
              /\ Appended(state.logs, state'.logs)
        /\ pc = "END" => state' = state ]_vars

\* every field has been written by its stage
C8_Witness ==
    /\ pc = "END"
    /\ state.facts = <<"is disaster">>
    /\ state.bias_words = <<"disaster">>
    /\ state.score = 6
    /\ state.logs = StageLogs

----------------------------------------------------------------------------
(* C9 *)

\* C9: a call with a non-blank article, once the graph is entered, goes on
\* until it has returned a 4-tuple with all three nodes run; this includes
\* the articles longer than 1000 characters, whatever their summary.
C9_RunTerminates ==
    (pc = "FactAgent") ~>
       (pc = "returned" /\ executed = StageOrder /\ Len(result) = 4)

\* a long article whose summary holds nothing but periods has returned
C9_Witness ==
    /\ pc = "returned"
    /\ Len(article) > 1000
    /\ ~AllWhitespace(article)
    /\ \A i \in 1..Len(state.text) : Char(state.text, i) = "."
    /\ executed = StageOrder
    /\ Len(result) = 4

----------------------------------------------------------------------------
(* C10 *)

\* the log a call on article has written after its first n nodes
LogsOf(n) ==
    (IF Len(article) > 1000 THEN <<SummarizerLog>> ELSE <<>>) \o SubSeq(StageLogs, 1, n)

\* C10: whatever calls came before, a call's state holds only what this call
\* wrote: the log is this call's entries (the summarizer's, if any, and one
\* per node run), a field is at its initial value until its node has run,
\* and the returned tuple is what the three agents make of this article
\* starting from a new state.
C10_NothingCarriedOver ==
    InRun =>
       /\ state.logs = LogsOf(Len(executed))
       /\ Len(state.logs) <= 4
       /\ "FactAgent" \notin Range(executed) => state.facts = <<>>
       /\ "BiasAgent" \notin Range(executed) => state.bias_words = <<>>
       /\ "Supervisor" \notin Range(executed) => state.score = 0 /\ state.remark = ""
       /\ pc = "returned" =>
             LET t == IF Len(article) > 1000 THEN summarizer_agent(article) ELSE article
                 new == [text |-> t, facts |-> <<>>, bias_words |-> <<>>,
                         score |-> 0, remark |-> "", logs |-> LogsOf(0)]
             IN  result = Render(supervisor_agent(bias_analyzer(fact_extractor(new))))

\* a second call has returned after a first one that found facts and bias
C10_Witness ==
    /\ pc = "returned"
    /\ calls = 2
    /\ article = "\n."
    /\ result = <<NoFacts, NoBias, "0.9 (Mostly Neutral)",
                  FactLog \o "\n" \o BiasLog \o "\n" \o SupervisorLog>>

====
